---- MODULE Spec2Model ----
(***************************************************************************)
(* Project::Tarot front end: the wizard controller (App.tsx), its error    *)
(* dialog (ErrorDialog.tsx) and the step pages (pages/*.tsx), modelled as  *)
(* one state machine.  Every action is one event handler, promise          *)
(* continuation or timer callback, together with the React render and the  *)
(* effects that the state change it makes brings about.                    *)
(***************************************************************************)
EXTENDS Integers, Sequences, FiniteSets, TLC

(* ------------------------------ bounds -------------------------------- *)
\* page/move payloads range over 0..MaxPage (NumPages and above: no such page)
MaxPage == 4
\* number of dialog/error events the engine emits in one run
MaxErrors == 12
\* train/progress/new events are emitted while the graph is shorter than this
MaxPoints == 3
\* each of the Start, Save and Restart buttons is pressed at most this often
MaxCalls == 2

(* ------------------------- program constants -------------------------- *)
\* pages = [DataPage, PreprocessPage, TrainPage, EvaluatePage]
NumPages == 4
\* "if (state.length >= 10) return state"
QueueCap == 10

\* index of each page in `pages`
DataIdx == 0
PreIdx == 1
TrainIdx == 2
EvalIdx == 3

PageValues == 0..MaxPage
Streams == {"page/move", "dialog/error", "core/panic"}
\* the value of watchdogHandler before the interval exists (NaN)
NoHandle == 0

VARIABLES
    \* ---- App.tsx: component state
    pageIndex,        \* useState(0)
    scrollableClass,  \* "scrolling" or "none" (undefined)
    isPanic,          \* useState(false)
    allErrorInfo,     \* useReducer queue of ErrorInfo
    \* ---- App.tsx: first effect (closure and what it started)
    mounted,          \* the App component is mounted
    appCanceled,      \* isCanceled of the effect's closure
    pageReq,          \* the get_page_index call: [st, value]
    lis,              \* the three listen() registrations
    \* ---- App.tsx: scroll effect (closure, timers, DOM)
    timeoutHandler,   \* handle of the closure's setTimeout
    watchdogHandler,  \* handle of the closure's setInterval, NoHandle = NaN
    timeouts,         \* pending timeouts of the window: {[h, idx]}
    intervals,        \* running intervals of the window: {[h, idx]}
    resizeListeners,  \* 'resize' listeners of the window: {[h, idx]}
    scrollLeft,       \* pageView.scrollLeft in units of clientWidth
    \* ---- ErrorDialog.tsx
    dlgOpen,          \* useState(false)
    dlgInfo,          \* title/message state (kept while closed)
    \* ---- window and engine
    terminated,       \* currentWindow.close() was called by handleCloseDialog
    enginePage,       \* the engine's page index
    nextErr,          \* number of dialog/error events emitted so far
    \* ---- history
    received,         \* ErrorInfo values handed to the dialog/error listener
    shown,            \* ErrorInfo values the dialog has displayed
    moveApplied,      \* a page/move event has been applied to pageIndex
    \* ---- pages/*.tsx
    effectLive,       \* page -> its activation effect has a cleanup registered
    inflight,         \* invoke() calls of the pages that have not settled
    listeners,        \* listen() registrations of the pages
    preTimers,        \* Preprocess: pending 1000 ms delay timers
    pre,              \* Preprocess: component state
    train,            \* Train: component state
    eval,             \* Evaluate: component state
    data,             \* Data: component state
    \* ---- history of the pages
    calls,            \* number of invoke() calls the pages' handlers made
    delayFired        \* a 1000 ms delay timer of Preprocess has fired

histVars == <<calls, delayFired>>
pageVars == <<effectLive, inflight, listeners, preTimers, pre, train, eval, data,
              histVars>>
scrollVars == <<scrollableClass, timeoutHandler, watchdogHandler, timeouts,
                intervals, resizeListeners, scrollLeft>>
\* what a change of pageIndex can change
navVars == <<pageIndex, scrollVars, pageVars>>
errVars == <<isPanic, allErrorInfo, dlgOpen, dlgInfo, terminated, nextErr,
             received, shown>>
initVars == <<mounted, appCanceled, pageReq, lis, enginePage, moveApplied>>
\* everything outside the pages
appVars == <<pageIndex, scrollVars, errVars, initVars>>

vars == <<navVars, errVars, initVars>>

(* ------------------------- App.tsx: reducer --------------------------- *)
\* mutant: the capacity test is off by one
ErrorAddOffByOne(state, value) ==
    IF Len(state) > QueueCap THEN state ELSE Append(state, value)

\* mutant: the new notification is put in front
ErrorAddFront(state, value) ==
    IF Len(state) >= QueueCap THEN state ELSE <<value>> \o state

\* case 'add'
ErrorAdd(state, value) ==
    IF Len(state) >= QueueCap THEN state ELSE Append(state, value)

\* mutant: the reducer runs twice on the array it mutates
ErrorRemoveTwice(state) ==
    IF Len(state) <= 1 THEN <<>> ELSE Tail(Tail(state))

\* case 'remove': state.shift(); return [...state]
ErrorRemove(state) ==
    IF state = <<>> THEN <<>> ELSE Tail(state)

\* mutant: the panic flag is not consulted
ShouldCloseIgnoringPanic(panic, state) ==
    Len(state) <= 1

\* mutant: the length is read after the removal
ShouldCloseAfterPop(panic, state) ==
    panic /\ Len(state) - 1 <= 1

\* handleCloseDialog: isPanic && allErrorInfo.length <= 1, both read from
\* the render the handler was created in (before the dispatched removal)
ShouldClose(panic, state) ==
    panic /\ Len(state) <= 1

(* ---------------------- ErrorDialog.tsx: effect ----------------------- *)
\* info = allErrorInfo[0]; setOpen(info != null); setTitle/setMessage
DialogEffect(queue) ==
    /\ dlgOpen' = (queue # <<>>)
    /\ dlgInfo' = IF queue # <<>> THEN Head(queue) ELSE dlgInfo
    /\ shown' = IF queue # <<>> THEN shown \cup {Head(queue)} ELSE shown

(* ---------------------- App.tsx: scroll effect ------------------------ *)
\* mutant: every scroll goes to the first page
ScrollClampOrigin(idx) == 0

\* the browser keeps scrollLeft within the scrollable width (NumPages pages)
ScrollClamp(idx) ==
    IF idx < 0 THEN 0 ELSE IF idx > NumPages - 1 THEN NumPages - 1 ELSE idx

UsedHandles(table) == {t.h : t \in table}

FreshHandle(table) ==
    1 + (CHOOSE m \in UsedHandles(table) \cup {0} :
            \A h \in UsedHandles(table) : h <= m)

\* mutant: the cleanup leaves the settle timer running
ClearTimeoutKept(table, h) == table

\* cleanup: clearTimeout(timeoutHandler)
ClearTimeout(table, h) == {t \in table : t.h # h}

\* mutant: the isNaN test is inverted
ClearWatchdogInverted(table, h) ==
    IF h = NoHandle THEN {t \in table : t.h # h} ELSE table

\* cleanup: if (!isNaN(watchdogHandler)) clearInterval(watchdogHandler)
ClearWatchdog(table, h) ==
    IF h # NoHandle THEN {t \in table : t.h # h} ELSE table

\* cleanup of the previous run followed by the body for the new pageIndex
ScrollEffect(idx) ==
    LET keptT == ClearTimeout(timeouts, timeoutHandler)
        keptI == ClearWatchdog(intervals, watchdogHandler)
        newH  == FreshHandle(keptT \cup keptI)
    IN  /\ resizeListeners' = {[h |-> 1, idx |-> idx]}
        /\ scrollableClass' = "scrolling"
        /\ scrollLeft' = ScrollClamp(idx)
        /\ watchdogHandler' = NoHandle
        /\ timeoutHandler' = newH
        /\ timeouts' = keptT \cup {[h |-> newH, idx |-> idx]}
        /\ intervals' = keptI

(* ----------------------- App.tsx: page enablement --------------------- *)
\* mutant: every page up to the current one is enabled
TabIndexUpTo(current, index) == IF current >= index THEN 0 ELSE 0 - 1

\* tabIndex={pageIndex === index ? undefined : -1}; 0 stands for undefined
TabIndex(current, index) == IF current = index THEN 0 ELSE 0 - 1

\* pageDisabled of a page: typeof tabIndex === 'number' && tabIndex < 0
PageDisabled(current, index) == TabIndex(current, index) < 0

\* a page's effect on [pageDisabled] re-runs when pageDisabled changes
Activated(index, value) ==
    PageDisabled(pageIndex, index) /\ ~PageDisabled(value, index)
Deactivated(index, value) ==
    ~PageDisabled(pageIndex, index) /\ PageDisabled(value, index)

(* ------------------------ pages: engine payloads ---------------------- *)
\* an optional value (tabName?, tabs?, highPeak?, report | null): absent is
\* None, present is Some(v)
None == <<>>
Some(v) == <<v>>
\* x ?? d
OrElse(x, d) == IF x = None THEN d ELSE x[1]

Str(s) == [t |-> "string", v |-> s]
Num(n) == [t |-> "number", v |-> n]

Columns ==
    << [field |-> "when", headerName |-> "When", type |-> "dateTime"],
       [field |-> "load", headerName |-> "Load", type |-> "number"],
       [field |-> "note", headerName |-> "Note", type |-> "string"] >>

Row(w, l) == [f \in {"when", "load", "note"} |->
                CASE f = "when" -> Str(w) [] f = "load" -> Num(l)
                  [] OTHER -> Str("n")]

SheetA ==
    [tabName |-> Some("A"), columns |-> Columns,
     rows |-> <<Row("d1", 1), Row("d2", 2)>>,
     allowedBatchPeriodes |-> <<"Daily", "Weekly">>,
     selectedDatetimeColumn |-> "when", selectedPredictableColumn |-> "load",
     selectedBatchPeriode |-> "Daily",
     rowSelection |-> [type |-> "exclude", ids |-> <<>>]]

SheetB ==
    [tabName |-> Some("B"), columns |-> SubSeq(Columns, 1, 2),
     rows |-> <<Row("d3", 3)>>,
     allowedBatchPeriodes |-> <<"Hourly">>,
     selectedDatetimeColumn |-> "", selectedPredictableColumn |-> "",
     selectedBatchPeriode |-> "",
     rowSelection |-> [type |-> "include", ids |-> <<>>]]

SheetCsv ==
    [tabName |-> None, columns |-> Columns,
     rows |-> <<Row("d4", 4)>>,
     allowedBatchPeriodes |-> <<"Daily">>,
     selectedDatetimeColumn |-> "when", selectedPredictableColumn |-> "",
     selectedBatchPeriode |-> "Daily",
     rowSelection |-> [type |-> "exclude", ids |-> <<0>>]]

Sheets == {SheetA, SheetB, SheetCsv}

DataInfos ==
    { [name |-> "book.xlsx", tabs |-> Some(<<"A", "B">>), sheetInfo |-> SheetA],
      [name |-> "data.csv", tabs |-> None, sheetInfo |-> SheetCsv] }

Origin == [x |-> 0, y |-> 0]
Points == {Origin, [x |-> 0, y |-> 5], [x |-> 1, y |-> 10]}

TrainProgresses ==
    { [endX |-> 10, confidencePoints |-> <<>>],
      [endX |-> 10, confidencePoints |-> <<[x |-> 2, y |-> 30]>>],
      [endX |-> 20, confidencePoints |-> <<Origin, [x |-> 1, y |-> 10]>>] }

Reports ==
    { [confidence |-> 9012, graph |-> <<>>, highPeak |-> None,
       lowPeak |-> None],
      [confidence |-> 5000, graph |-> <<[x |-> "d1", y0 |-> 1, y1 |-> 2]>>,
       highPeak |-> Some([x |-> "d1", y0 |-> 1, y1 |-> 2]), lowPeak |-> None] }

\* evaluate/progress payloads in thousandths of 1
Progresses == {0, 454, 455, 1000}

(* -------------------- pages: calls, timers, listeners ----------------- *)
\* One invoke() that has not settled.  `canceled` is the isCanceled variable
\* of the closure its continuation reads; `cur` records that the activation
\* (or handler run) that issued it belongs to the page's current activation.
Req(cmd, arg) ==
    [cmd |-> cmd, arg |-> arg, cur |-> TRUE, canceled |-> FALSE]

\* the calls whose number is recorded: made by a handler or chained to one
CountedCalls == {"submit_preprocess_config", "submit_ok", "start_train",
                 "save_prediction", "restart", "load_data"}

\* one more call of the command c
Count(c) == [calls EXCEPT ![c] = @ + 1]

PreCmds == {"get_data_info", "select_sheet"}
TrainCmds == {"get_train_progress"}
EvalCmds == {"get_evaluation"}

\* the activation ends: nothing it started belongs to the current one
EndActivation(things) == {[x EXCEPT !.cur = FALSE] : x \in things}

EndCalls(reqs, cmds) ==
    {r \in reqs : r.cmd \notin cmds}
        \cup EndActivation({r \in reqs : r.cmd \in cmds})

\* mutant: the cleanup does not set the flag
CancelFlagSkipped(x) == x

\* effect cleanup: isCanceled = true, seen by every continuation of the closure
CancelFlag(x) == [x EXCEPT !.canceled = TRUE]

CancelFetch(reqs, cmd) ==
    {IF r.cmd = cmd /\ r.cur THEN CancelFlag(r) ELSE r : r \in reqs}

CancelDelay(timers) ==
    {IF t.cur THEN CancelFlag(t) ELSE t : t \in timers}

\* mutant: the cleanup leaves the timer running
PreClearDelayKept(timers) == timers

\* Preprocess cleanup: if (!isNaN(timeoutHandler)) clearTimeout(timeoutHandler)
\* after isCanceled = true
PreClearDelay(timers) ==
    {t \in timers : ~t.cur}

\* One listen() call: st is "requested" (the backend has not registered the
\* handler), "registered" (the handler receives events, the promise is
\* pending) or "resolved" (the promise has delivered the unlisten function);
\* dropping: the cleanup's unlistener.then(...) waits for the promise.
Listener(stream) ==
    [stream |-> stream, st |-> "requested", cur |-> TRUE, dropping |-> FALSE]

\* effect cleanup: unlistener.then((unlisten) => unlisten())
Unlisten(ls, stream) ==
    LET mine == {l \in ls : l.stream = stream /\ l.cur}
    IN  (ls \ mine)
            \cup {[l EXCEPT !.dropping = TRUE] : l \in {m \in mine : m.st # "resolved"}}

EndListeners(ls, stream) ==
    {l \in ls : l.stream # stream}
        \cup EndActivation({l \in ls : l.stream = stream})

(* --------------------- Train.tsx: reducer ----------------------------- *)
\* mutant: 'set' returns the snapshot even when it is empty
modifyConfidenceGraphSetEmpty(state, type, value) ==
    CASE type = "add" ->
            IF Len(state) = 1 /\ state[1].x = 0 /\ value.x = 0
            THEN <<value>>
            ELSE Append(state, value)
      [] type = "set" -> value
      [] OTHER -> <<Origin>>

\* mutant: 'add' without the restart rule
modifyConfidenceGraphNoRestart(state, type, value) ==
    CASE type = "add" -> Append(state, value)
      [] type = "set" ->
            IF Len(value) > 0 THEN value ELSE <<Origin>>
      [] OTHER -> <<Origin>>

\* mutant: 'set' merges the snapshot into the sequence
modifyConfidenceGraphMerge(state, type, value) ==
    CASE type = "add" ->
            IF Len(state) = 1 /\ state[1].x = 0 /\ value.x = 0
            THEN <<value>>
            ELSE Append(state, value)
      [] type = "set" ->
            IF Len(value) > 0 THEN state \o value ELSE <<Origin>>
      [] OTHER -> <<Origin>>

modifyConfidenceGraph(state, type, value) ==
    CASE type = "add" ->
            IF Len(state) = 1 /\ state[1].x = 0 /\ value.x = 0
            THEN <<value>>
            ELSE Append(state, value)
      [] type = "set" ->
            IF Len(value) > 0 THEN value ELSE <<Origin>>
      [] OTHER -> <<Origin>>

(* ------------------- Preprocess.tsx: changeSheetInfo ------------------ *)
DatetimeFields(sheetInfo) ==
    {sheetInfo.columns[i].field : i \in
        {j \in DOMAIN sheetInfo.columns : sheetInfo.columns[j].type = "dateTime"}}

\* rows.map: string values of dateTime columns become Date objects
ConvertRow(sheetInfo, each) ==
    [k \in DOMAIN each |->
        IF k \in DatetimeFields(sheetInfo) /\ each[k].t = "string"
        THEN [t |-> "Date", v |-> each[k].v]
        ELSE each[k]]

\* mutant: a merge that keeps the selections of the previous sheet
changeSheetInfoPartial(p, sheetInfo) ==
    [p EXCEPT
        !.columns = sheetInfo.columns,
        !.rows = [i \in DOMAIN sheetInfo.rows |->
                     ConvertRow(sheetInfo, sheetInfo.rows[i])],
        !.allowedBatchPeriodes = sheetInfo.allowedBatchPeriodes,
        !.selectedTab = OrElse(sheetInfo.tabName, "")]

changeSheetInfo(p, sheetInfo) ==
    [p EXCEPT
        !.columns = sheetInfo.columns,
        !.rows = [i \in DOMAIN sheetInfo.rows |->
                     ConvertRow(sheetInfo, sheetInfo.rows[i])],
        !.allowedBatchPeriodes = sheetInfo.allowedBatchPeriodes,
        !.selectedTab = OrElse(sheetInfo.tabName, ""),
        !.selectedDatetime = sheetInfo.selectedDatetimeColumn,
        !.selectedPredictable = sheetInfo.selectedPredictableColumn,
        !.selectedBatchPeriode = sheetInfo.selectedBatchPeriode,
        !.rowSelection = sheetInfo.rowSelection]

(* ------------------- pages: the effects on [pageDisabled] ------------- *)
\* Preprocess: setLoading(true); setName(''); setTabs([]); setColumns([]);
\* setRows([]), run on activation and on deactivation alike
PreReset(p) ==
    [p EXCEPT !.isLoading = TRUE, !.name = "", !.tabs = <<>>,
              !.columns = <<>>, !.rows = <<>>]

\* mutant: the report survives the effect
EvalResetKeepsReport(e) == [e EXCEPT !.predictProgress = 0]

\* Evaluate: setReport(null); setPredictProgress(0), run on activation and on
\* deactivation alike
EvalReset(e) == [e EXCEPT !.report = None, !.predictProgress = 0]

PreEffectTimers(value) ==
    LET kept == IF Deactivated(PreIdx, value)
                THEN EndActivation(PreClearDelay(CancelDelay(preTimers)))
                ELSE preTimers
    IN  IF Activated(PreIdx, value)
        THEN kept \cup {[cur |-> TRUE, canceled |-> FALSE]}
        ELSE kept

PagesInflight(value) ==
    LET a == IF Deactivated(PreIdx, value)
             THEN EndCalls(CancelFetch(inflight, "get_data_info"), PreCmds)
             ELSE inflight
        b == IF Deactivated(TrainIdx, value)
             THEN EndCalls(CancelFetch(a, "get_train_progress"), TrainCmds)
             ELSE a
        c == IF Deactivated(EvalIdx, value)
             THEN EndCalls(CancelFetch(b, "get_evaluation"), EvalCmds)
             ELSE b
    IN  c \cup (IF Activated(TrainIdx, value)
                THEN {Req("get_train_progress", "")} ELSE {})
          \cup (IF Activated(EvalIdx, value)
                THEN {Req("get_evaluation", "")} ELSE {})

PagesListeners(value) ==
    LET a == IF Deactivated(TrainIdx, value)
             THEN EndListeners(Unlisten(listeners, "train/progress/new"),
                               "train/progress/new")
             ELSE listeners
        b == IF Deactivated(EvalIdx, value)
             THEN EndListeners(Unlisten(a, "evaluate/progress"),
                               "evaluate/progress")
             ELSE a
    IN  b \cup (IF Activated(TrainIdx, value)
                THEN {Listener("train/progress/new")} ELSE {})
          \cup (IF Activated(EvalIdx, value)
                THEN {Listener("evaluate/progress")} ELSE {})

PagesEffects(value) ==
    /\ effectLive' = [i \in DOMAIN effectLive |->
                        IF Activated(i, value) THEN TRUE
                        ELSE IF Deactivated(i, value) THEN FALSE
                        ELSE effectLive[i]]
    /\ preTimers' = PreEffectTimers(value)
    /\ inflight' = PagesInflight(value)
    /\ listeners' = PagesListeners(value)
    /\ pre' = IF Activated(PreIdx, value) \/ Deactivated(PreIdx, value)
              THEN PreReset(pre) ELSE pre
    /\ train' = IF Deactivated(TrainIdx, value)
                THEN [endX |-> 0,
                      confidencePoints |->
                          modifyConfidenceGraph(train.confidencePoints, "clear", <<>>)]
                ELSE train
    /\ eval' = IF Activated(EvalIdx, value) \/ Deactivated(EvalIdx, value)
               THEN EvalReset(eval)
               ELSE eval
    /\ UNCHANGED <<histVars, data>>

\* setPageIndex(value): React re-renders and re-runs the effects that depend
\* on pageIndex (App) or on pageDisabled (pages) only when the value differs
SetPageIndex(value) ==
    IF value = pageIndex
    THEN UNCHANGED navVars
    ELSE /\ pageIndex' = value
         /\ ScrollEffect(value)
         /\ PagesEffects(value)

(* ------------------------------ Init ---------------------------------- *)
\* the state after the first commit: both effects of App have run once
Init ==
    /\ pageIndex = 0
    /\ scrollableClass = "scrolling"
    /\ isPanic = FALSE
    /\ allErrorInfo = <<>>
    /\ mounted = TRUE
    /\ appCanceled = FALSE
    /\ pageReq = [st |-> "sent", value |-> 0]
    /\ lis = [s \in Streams |-> "requested"]
    /\ timeoutHandler = 1
    /\ watchdogHandler = NoHandle
    /\ timeouts = {[h |-> 1, idx |-> 0]}
    /\ intervals = {}
    /\ resizeListeners = {[h |-> 1, idx |-> 0]}
    /\ scrollLeft = 0
    /\ dlgOpen = FALSE
    /\ dlgInfo = 0
    /\ terminated = FALSE
    /\ enginePage \in 0..(NumPages - 1)
    /\ nextErr = 0
    /\ received = {}
    /\ shown = {}
    /\ moveApplied = FALSE
    \* the pages' effects have run with pageIndex = 0
    /\ effectLive = [i \in {PreIdx, TrainIdx, EvalIdx} |-> FALSE]
    /\ inflight = {}
    /\ listeners = {}
    /\ preTimers = {}
    /\ pre = [isLoading |-> TRUE, isSubmitting |-> FALSE, name |-> "",
              tabs |-> <<>>, columns |-> <<>>, rows |-> <<>>,
              allowedBatchPeriodes |-> <<>>, selectedTab |-> "",
              selectedDatetime |-> "", selectedPredictable |-> "",
              selectedBatchPeriode |-> "",
              rowSelection |-> [type |-> "exclude", ids |-> <<>>]]
    /\ train = [endX |-> 0, confidencePoints |-> <<Origin>>]
    /\ eval = [report |-> None, isSaving |-> FALSE, predictProgress |-> 0]
    /\ data = [loading |-> FALSE]
    /\ calls = [c \in CountedCalls |-> 0]
    /\ delayFired = FALSE

Running == mounted /\ ~terminated

(* ----------------- App.tsx: first effect, get_page_index -------------- *)
\* the engine answers get_page_index with its index at that moment
EngineReplyPageIndex ==
    /\ pageReq.st = "sent"
    /\ pageReq' = [st |-> "replied", value |-> enginePage]
    /\ UNCHANGED <<navVars, errVars, mounted, appCanceled, lis, enginePage,
                   moveApplied>>

\* .then((value) => { if (isCanceled) return; setPageIndex(value); })
PageIndexThen ==
    /\ pageReq.st = "replied"
    /\ ~terminated
    /\ pageReq' = [pageReq EXCEPT !.st = "settled"]
    /\ IF appCanceled THEN UNCHANGED navVars ELSE SetPageIndex(pageReq.value)
    /\ UNCHANGED <<errVars, mounted, appCanceled, lis, enginePage, moveApplied>>

\* the backend has registered the handler of one listen() call
ListenRegistered(s) ==
    /\ Running
    /\ lis[s] = "requested"
    /\ lis' = [lis EXCEPT ![s] = "live"]
    /\ UNCHANGED <<navVars, errVars, mounted, appCanceled, pageReq,
                   enginePage, moveApplied>>

\* the engine moves to page `value` and emits App://page/move; the handler
\* (event) => setPageIndex(event.payload) runs if it is registered
PageMove(value) ==
    /\ ~terminated
    /\ enginePage' = value
    /\ IF mounted /\ lis["page/move"] = "live"
       THEN SetPageIndex(value) /\ moveApplied' = TRUE
       ELSE UNCHANGED <<navVars, moveApplied>>
    /\ UNCHANGED <<errVars, mounted, appCanceled, pageReq, lis>>

\* App://dialog/error: modifyErrorInfo({ type: 'add', value: event.payload })
ErrorEvent ==
    /\ Running
    /\ lis["dialog/error"] = "live"
    /\ nextErr < MaxErrors
    /\ nextErr' = nextErr + 1
    /\ allErrorInfo' = ErrorAdd(allErrorInfo, nextErr + 1)
    /\ received' = received \cup {nextErr + 1}
    /\ DialogEffect(allErrorInfo')
    /\ UNCHANGED <<navVars, isPanic, terminated, mounted, appCanceled, pageReq,
                   lis, enginePage, moveApplied>>

\* App://core/panic: setPanic(true)
PanicEvent ==
    /\ Running
    /\ lis["core/panic"] = "live"
    /\ ~isPanic
    /\ isPanic' = TRUE
    /\ UNCHANGED <<navVars, allErrorInfo, dlgOpen, dlgInfo, terminated,
                   nextErr, received, shown, mounted, appCanceled, pageReq,
                   lis, enginePage, moveApplied>>

\* handleCloseDialog, reachable through the open dialog's OK button/onClose
HandleCloseDialog ==
    /\ Running
    /\ dlgOpen
    /\ allErrorInfo' = ErrorRemove(allErrorInfo)
    /\ terminated' = ShouldClose(isPanic, allErrorInfo)
    /\ DialogEffect(allErrorInfo')
    /\ UNCHANGED <<navVars, isPanic, nextErr, received, mounted, appCanceled,
                   pageReq, lis, enginePage, moveApplied>>

\* no page is enabled for this index
NoPage == 0 - 1

\* cleanup of the first effect when App unmounts; the pages unmount with it
\* and the cleanup of the active page's effect runs
AppUnmount ==
    /\ Running
    /\ mounted' = FALSE
    /\ appCanceled' = TRUE
    /\ lis' = [s \in Streams |-> "off"]
    /\ timeouts' = ClearTimeout(timeouts, timeoutHandler)
    /\ intervals' = ClearWatchdog(intervals, watchdogHandler)
    /\ resizeListeners' = {}
    /\ effectLive' = [i \in DOMAIN effectLive |-> FALSE]
    /\ preTimers' = PreEffectTimers(NoPage)
    /\ inflight' = PagesInflight(NoPage)
    /\ listeners' = PagesListeners(NoPage)
    /\ UNCHANGED <<pageIndex, scrollableClass, timeoutHandler, watchdogHandler,
                   scrollLeft, errVars, pageReq, enginePage, moveApplied,
                   pre, train, eval, data, histVars>>

(* ------------------ App.tsx: scroll effect callbacks ------------------ *)
\* setTimeout(() => { setScrollableClass(undefined);
\*                    watchdogHandler = setInterval(..., 1000) }, 500)
TimeoutFire ==
    /\ Running
    /\ \E t \in timeouts :
         LET newH == FreshHandle(timeouts \cup intervals)
         IN  /\ timeouts' = timeouts \ {t}
             /\ scrollableClass' = "none"
             /\ intervals' = intervals \cup {[h |-> newH, idx |-> t.idx]}
             /\ watchdogHandler' =
                   IF t.h = timeoutHandler THEN newH ELSE watchdogHandler
    /\ UNCHANGED <<pageIndex, timeoutHandler, resizeListeners, scrollLeft,
                   errVars, initVars, pageVars>>

scrollFixed == <<pageIndex, scrollableClass, timeoutHandler, watchdogHandler,
                 timeouts, intervals, resizeListeners, errVars, initVars,
                 pageVars>>

\* the interval callback: scrollTo({ left: clientWidth * pageIndex })
WatchdogTick ==
    /\ Running
    /\ \E t \in intervals : scrollLeft' = ScrollClamp(t.idx)
    /\ UNCHANGED scrollFixed

\* window 'resize': workaround() of the registered listener
Resize ==
    /\ Running
    /\ \E l \in resizeListeners : scrollLeft' = ScrollClamp(l.idx)
    /\ UNCHANGED scrollFixed

\* platform-level scroll drift the watchdog defends against
ScrollDrift ==
    /\ Running
    /\ \E x \in 0..(NumPages - 1) : x # scrollLeft /\ scrollLeft' = x
    /\ UNCHANGED scrollFixed

(* ----------------------- Preprocess.tsx: actions ---------------------- *)
\* the 1000 ms timer resolves the promise:
\* .then(() => { if (isCanceled) return; ...; return invoke('get_data_info') })
PreDelayFire ==
    /\ ~terminated
    /\ delayFired' = TRUE
    /\ \E t \in preTimers :
         /\ preTimers' = preTimers \ {t}
         /\ inflight' = IF t.canceled THEN inflight
                        ELSE inflight \cup {[Req("get_data_info", "") EXCEPT
                                               !.cur = t.cur]}
    /\ UNCHANGED <<appVars, data, calls, effectLive, listeners, pre, train, eval>>

\* get_data_info settles: .then((value) => { if (isCanceled) return; ... })
DataInfoThen ==
    /\ ~terminated
    /\ \E r \in inflight, value \in DataInfos :
         /\ r.cmd = "get_data_info"
         /\ inflight' = inflight \ {r}
         /\ pre' = IF r.canceled \/ ~mounted THEN pre
                   ELSE [changeSheetInfo(
                            [pre EXCEPT !.name = value.name,
                                        !.tabs = OrElse(value.tabs, <<>>)],
                            value.sheetInfo)
                         EXCEPT !.isLoading = FALSE]
    /\ UNCHANGED <<appVars, data, histVars, effectLive, listeners, preTimers, train, eval>>

\* const disabled = pageDisabled || isLoading || isSubmitting
PreDisabled ==
    PageDisabled(pageIndex, PreIdx) \/ pre.isLoading \/ pre.isSubmitting

\* handleSelectTab: the Select offers `tabs` and reports a changed value
HandleSelectTab(value) ==
    /\ Running
    /\ ~PreDisabled
    /\ \E i \in DOMAIN pre.tabs : pre.tabs[i] = value
    /\ value # pre.selectedTab
    /\ pre' = [pre EXCEPT !.selectedTab = value, !.isLoading = TRUE]
    /\ inflight' = inflight \cup {Req("select_sheet", value)}
    /\ UNCHANGED <<appVars, data, histVars, effectLive, listeners, preTimers, train, eval>>

\* select_sheet settles: .then((sheetInfo) => { if (isCanceled) return; ... })
SelectSheetThen ==
    /\ ~terminated
    /\ \E r \in inflight, sheetInfo \in Sheets :
         /\ r.cmd = "select_sheet"
         /\ sheetInfo.tabName = Some(r.arg)
         /\ inflight' = inflight \ {r}
         /\ pre' = IF r.canceled \/ ~mounted THEN pre
                   ELSE [changeSheetInfo(pre, sheetInfo)
                         EXCEPT !.isLoading = FALSE]
    /\ UNCHANGED <<appVars, data, histVars, effectLive, listeners, preTimers, train, eval>>

\* get_data_info is rejected: the chain has no catch, so the continuation
\* .then((value) => ...) never runs and nothing is set
DataInfoRejected ==
    /\ ~terminated
    /\ \E r \in inflight :
         /\ r.cmd = "get_data_info"
         /\ inflight' = inflight \ {r}
    /\ UNCHANGED <<appVars, data, histVars, effectLive, listeners, preTimers,
                   pre, train, eval>>

\* select_sheet is rejected: .then((sheetInfo) => ...) has no catch either
SelectSheetRejected ==
    /\ ~terminated
    /\ \E r \in inflight :
         /\ r.cmd = "select_sheet"
         /\ inflight' = inflight \ {r}
    /\ UNCHANGED <<appVars, data, histVars, effectLive, listeners, preTimers,
                   pre, train, eval>>

(* ---------------------------- Data.tsx -------------------------------- *)
\* mutant: a pending load does not disable the button
DataDisabledIgnoringLoading == PageDisabled(pageIndex, DataIdx)

\* const disabled = (typeof tabIndex === 'number' && tabIndex < 0) || loading
DataDisabled == PageDisabled(pageIndex, DataIdx) \/ data.loading

\* handleClickLoad, behind the Load File button's `disabled`
HandleClickLoad ==
    /\ Running
    /\ ~DataDisabled
    /\ calls["load_data"] < MaxCalls
    /\ data' = [data EXCEPT !.loading = TRUE]
    /\ inflight' = inflight \cup {Req("load_data", "")}
    /\ calls' = Count("load_data")
    /\ UNCHANGED <<appVars, delayFired, effectLive, listeners, preTimers, pre,
                   train, eval>>

\* load_data settles: .finally(() => { setLoading(false); })
LoadSettles(ok) ==
    /\ ~terminated
    /\ \E r \in inflight :
         /\ r.cmd = "load_data"
         /\ inflight' = inflight \ {r}
    /\ data' = IF mounted THEN [data EXCEPT !.loading = FALSE] ELSE data
    /\ UNCHANGED <<appVars, histVars, effectLive, listeners, preTimers, pre,
                   train, eval>>

(* -------------------- Preprocess.tsx: the form ------------------------ *)
\* fields of the columns of one type: the options of a column Select
FieldsOfType(columns, type) ==
    {columns[i].field : i \in {j \in DOMAIN columns : columns[j].type = type}}

\* onChange of the Date/Time Column Select: setSelectedDatetime(e.target.value)
HandleSelectDatetime(value) ==
    /\ Running
    /\ ~PreDisabled
    /\ value \in FieldsOfType(pre.columns, "dateTime")
    /\ value # pre.selectedDatetime
    /\ pre' = [pre EXCEPT !.selectedDatetime = value]
    /\ UNCHANGED <<appVars, data, histVars, effectLive, inflight, listeners,
                   preTimers, train, eval>>

\* onChange of the Column to Predict Select
HandleSelectPredictable(value) ==
    /\ Running
    /\ ~PreDisabled
    /\ value \in FieldsOfType(pre.columns, "number")
    /\ value # pre.selectedPredictable
    /\ pre' = [pre EXCEPT !.selectedPredictable = value]
    /\ UNCHANGED <<appVars, data, histVars, effectLive, inflight, listeners,
                   preTimers, train, eval>>

\* onChange of the batch period Select
HandleSelectBatchPeriode(value) ==
    /\ Running
    /\ ~PreDisabled
    /\ \E i \in DOMAIN pre.allowedBatchPeriodes :
            pre.allowedBatchPeriodes[i] = value
    /\ value # pre.selectedBatchPeriode
    /\ pre' = [pre EXCEPT !.selectedBatchPeriode = value]
    /\ UNCHANGED <<appVars, data, histVars, effectLive, inflight, listeners,
                   preTimers, train, eval>>

\* the selections the grid can report for `rows`: row numbers in ascending
\* order
IdSeqs(rows) ==
    {ids \in UNION {[1..k -> DOMAIN rows] : k \in 0..Len(rows)} :
        \A i, j \in DOMAIN ids : i < j => ids[i] < ids[j]}

\* onRowSelectionModelChange of the DataGrid, which is rendered unless
\* isLoading || pageDisabled and takes no pointer events while submitting
HandleRowSelection(type, ids) ==
    /\ Running
    /\ ~PreDisabled
    /\ ids \in IdSeqs(pre.rows)
    /\ [type |-> type, ids |-> ids] # pre.rowSelection
    /\ pre' = [pre EXCEPT !.rowSelection = [type |-> type, ids |-> ids]]
    /\ UNCHANGED <<appVars, data, histVars, effectLive, inflight, listeners,
                   preTimers, train, eval>>

\* mutant: every selection in exclude mode counts as non-trivial
AllowSubmitAnyExclude(disabled, p) ==
    /\ ~disabled
    /\ p.selectedDatetime # ""
    /\ p.selectedPredictable # ""
    /\ p.selectedBatchPeriode # ""
    /\ \/ p.rowSelection.type = "include" /\ Len(p.rowSelection.ids) # 0
       \/ p.rowSelection.type = "exclude"

\* const allowSubmit = !disabled && selectedDatetime && selectedPredictable
\*   && selectedBatchPeriode && (...); a string is truthy iff it is not ''
AllowSubmit(disabled, p) ==
    /\ ~disabled
    /\ p.selectedDatetime # ""
    /\ p.selectedPredictable # ""
    /\ p.selectedBatchPeriode # ""
    /\ \/ p.rowSelection.type = "include" /\ Len(p.rowSelection.ids) # 0
       \/ p.rowSelection.type = "exclude"
            /\ Len(p.rowSelection.ids) # Len(p.rows)

\* mutant: the chained call is made whatever the outcome
ThenRunsAlways(ok) == TRUE

\* invoke(...).finally(f).then(g): g runs iff the call was fulfilled
ThenRuns(ok) == ok

\* handleClickStart, behind the Start button's disabled={!allowSubmit}
HandleClickStart ==
    /\ Running
    /\ AllowSubmit(PreDisabled, pre)
    /\ calls["submit_preprocess_config"] < MaxCalls
    /\ IF pre.selectedBatchPeriode = ""
       THEN UNCHANGED <<pre, inflight, calls>>
       ELSE /\ pre' = [pre EXCEPT !.isSubmitting = TRUE]
            /\ inflight' = inflight \cup
                    {Req("submit_preprocess_config", pre.selectedTab)}
            /\ calls' = Count("submit_preprocess_config")
    /\ UNCHANGED <<appVars, data, delayFired, effectLive, listeners,
                   preTimers, train, eval>>

\* submit_preprocess_config settles:
\* .finally(() => setSubmitting(false)).then(() => invoke('start_train'))
SubmitSettles(ok) ==
    /\ ~terminated
    /\ \E r \in inflight :
         /\ r.cmd = "submit_preprocess_config"
         /\ inflight' = inflight \ {r}
    /\ pre' = IF mounted THEN [pre EXCEPT !.isSubmitting = FALSE] ELSE pre
    /\ calls' = [calls EXCEPT
                    !["submit_ok"] = IF ok THEN @ + 1 ELSE @,
                    !["start_train"] = IF ThenRuns(ok) THEN @ + 1 ELSE @]
    /\ UNCHANGED <<appVars, data, delayFired, effectLive, listeners,
                   preTimers, train, eval>>

(* --------------------- pages: listen() registrations ------------------ *)
\* the backend registers the handler of a listen() call
PageListenRegistered ==
    /\ ~terminated
    /\ \E l \in listeners :
         /\ l.st = "requested"
         /\ listeners' = (listeners \ {l}) \cup {[l EXCEPT !.st = "registered"]}
    /\ UNCHANGED <<appVars, data, histVars, effectLive, inflight, preTimers, pre, train, eval>>

\* the listen() promise resolves; a waiting cleanup calls unlisten() at once
PageListenResolved ==
    /\ ~terminated
    /\ \E l \in listeners :
         /\ l.st = "registered"
         /\ listeners' = (listeners \ {l}) \cup
                (IF l.dropping THEN {} ELSE {[l EXCEPT !.st = "resolved"]})
    /\ UNCHANGED <<appVars, data, histVars, effectLive, inflight, preTimers, pre, train, eval>>

Live(stream) ==
    {l \in listeners : l.stream = stream /\ l.st \in {"registered", "resolved"}}

(* -------------------------- Train.tsx: actions ------------------------ *)
\* get_train_progress settles
TrainProgressThen ==
    /\ ~terminated
    /\ \E r \in inflight, value \in TrainProgresses :
         /\ r.cmd = "get_train_progress"
         /\ inflight' = inflight \ {r}
         /\ train' = IF r.canceled \/ ~mounted THEN train
                     ELSE [endX |-> value.endX,
                           confidencePoints |->
                               modifyConfidenceGraph(train.confidencePoints,
                                                     "set", value.confidencePoints)]
    /\ UNCHANGED <<appVars, data, histVars, effectLive, listeners, preTimers, pre, eval>>

RECURSIVE AddTimes(_, _, _)
AddTimes(state, value, n) ==
    IF n = 0 THEN state
    ELSE AddTimes(modifyConfidenceGraph(state, "add", value), value, n - 1)

\* App://train/progress/new: every registered handler dispatches 'add'
TrainProgressNew(value) ==
    /\ Running
    /\ Live("train/progress/new") # {}
    /\ Len(train.confidencePoints) < MaxPoints
    /\ train' = [train EXCEPT !.confidencePoints =
                    AddTimes(@, value, Cardinality(Live("train/progress/new")))]
    /\ UNCHANGED <<appVars, data, histVars, effectLive, inflight, listeners, preTimers, pre, eval>>

(* ------------------------- Evaluate.tsx: actions ---------------------- *)
\* get_evaluation settles
EvaluationThen ==
    /\ ~terminated
    /\ \E r \in inflight, value \in Reports :
         /\ r.cmd = "get_evaluation"
         /\ inflight' = inflight \ {r}
         /\ eval' = IF r.canceled \/ ~mounted THEN eval
                    ELSE [eval EXCEPT !.report = Some(value)]
    /\ UNCHANGED <<appVars, data, histVars, effectLive, listeners, preTimers, pre, train>>

\* Math.round(event.payload * 100) / 100, payload in thousandths, result in
\* hundredths
RoundProgress(payload) == (payload + 5) \div 10

\* App://evaluate/progress
EvaluateProgress(payload) ==
    /\ Running
    /\ Live("evaluate/progress") # {}
    /\ eval' = [eval EXCEPT !.predictProgress = RoundProgress(payload)]
    /\ UNCHANGED <<appVars, data, histVars, effectLive, inflight, listeners, preTimers, pre, train>>

\* const isPredicting = pageDisabled || report === null
EvalPredicting == PageDisabled(pageIndex, EvalIdx) \/ eval.report = None

\* mutant: a pending save does not make the step busy
EvalBusyIgnoringSave == EvalPredicting

\* const isBusy = isPredicting || isSaving
EvalBusy == EvalPredicting \/ eval.isSaving

\* handleSave, behind the Save button (rendered unless isPredicting,
\* disabled={isBusy})
HandleSave ==
    /\ Running
    /\ ~EvalPredicting
    /\ ~EvalBusy
    /\ calls["save_prediction"] < MaxCalls
    /\ eval' = [eval EXCEPT !.isSaving = TRUE]
    /\ inflight' = inflight \cup {Req("save_prediction", "")}
    /\ calls' = Count("save_prediction")
    /\ UNCHANGED <<appVars, data, delayFired, effectLive, listeners,
                   preTimers, pre, train>>

\* save_prediction settles: .finally(() => { setSaving(false); })
SaveSettles(ok) ==
    /\ ~terminated
    /\ \E r \in inflight :
         /\ r.cmd = "save_prediction"
         /\ inflight' = inflight \ {r}
    /\ eval' = IF mounted THEN [eval EXCEPT !.isSaving = FALSE] ELSE eval
    /\ UNCHANGED <<appVars, data, histVars, effectLive, listeners, preTimers, pre,
                   train>>

\* handleRestart, behind the Restart button (rendered unless isPredicting,
\* disabled={isBusy}): invoke('restart'), the result is not awaited
HandleRestart ==
    /\ Running
    /\ ~EvalPredicting
    /\ ~EvalBusy
    /\ calls["restart"] < MaxCalls
    /\ calls' = Count("restart")
    /\ UNCHANGED <<appVars, data, delayFired, effectLive, inflight,
                   listeners, preTimers, pre, train, eval>>

(* --------------------------- specifications --------------------------- *)
\* the error dialog: error and panic events, acknowledgements
NextErr ==
    \/ \E s \in Streams : ListenRegistered(s)
    \/ ErrorEvent
    \/ PanicEvent
    \/ HandleCloseDialog
    \/ \E v \in PageValues : PageMove(v)
    \/ AppUnmount

SpecErr == Init /\ [][NextErr]_vars

\* the user acknowledges every notification that is displayed
LiveSpecErr == SpecErr /\ WF_vars(HandleCloseDialog)

\* navigation: the initial index, page/move events and the scroll effect
NextNav ==
    \/ EngineReplyPageIndex
    \/ PageIndexThen
    \/ ListenRegistered("page/move")
    \/ \E v \in PageValues : PageMove(v)
    \/ TimeoutFire
    \/ WatchdogTick
    \/ Resize
    \/ ScrollDrift
    \/ AppUnmount

SpecNav == Init /\ [][NextNav]_vars

\* the pages' fetches: activation, the delay, the guarded responses
NextFetch ==
    \/ EngineReplyPageIndex
    \/ PageIndexThen
    \/ ListenRegistered("page/move")
    \/ \E v \in PageValues : PageMove(v)
    \/ AppUnmount
    \/ PreDelayFire
    \/ DataInfoThen
    \/ \E value \in {"A", "B"} : HandleSelectTab(value)
    \/ SelectSheetThen
    \/ TrainProgressThen
    \/ EvaluationThen

SpecFetch == Init /\ [][NextFetch]_vars

\* the pages' event streams
NextStreams ==
    \/ ListenRegistered("page/move")
    \/ \E v \in PageValues : PageMove(v)
    \/ PageListenRegistered
    \/ PageListenResolved
    \/ \E value \in Points : TrainProgressNew(value)
    \/ \E payload \in Progresses : EvaluateProgress(payload)

SpecStreams == Init /\ [][NextStreams]_vars

\* the Train page: the snapshot and the point stream
NextTrain ==
    \/ ListenRegistered("page/move")
    \/ \E v \in {PreIdx, TrainIdx} : PageMove(v)
    \/ PageListenRegistered
    \/ PageListenResolved
    \/ TrainProgressThen
    \/ \E value \in Points : TrainProgressNew(value)

SpecTrain == Init /\ [][NextTrain]_vars

\* the Preprocess form: loading, selections, submit
NextSubmit ==
    \/ ListenRegistered("page/move")
    \/ \E v \in {PreIdx, TrainIdx} : PageMove(v)
    \/ PreDelayFire
    \/ DataInfoThen
    \/ \E value \in {"A", "B"} : HandleSelectTab(value)
    \/ SelectSheetThen
    \/ \E value \in {"when"} : HandleSelectDatetime(value)
    \/ \E value \in {"load"} : HandleSelectPredictable(value)
    \/ \E value \in {"Daily", "Weekly"} : HandleSelectBatchPeriode(value)
    \/ \E type \in {"include", "exclude"}, ids \in IdSeqs(pre.rows) :
          HandleRowSelection(type, ids)
    \/ HandleClickStart
    \/ \E ok \in BOOLEAN : SubmitSettles(ok)

SpecSubmit == Init /\ [][NextSubmit]_vars

\* the Preprocess requests with both outcomes of invoke()
NextLoad ==
    \/ ListenRegistered("page/move")
    \/ \E v \in {DataIdx, PreIdx} : PageMove(v)
    \/ PreDelayFire
    \/ DataInfoThen
    \/ DataInfoRejected
    \/ \E value \in {"A", "B"} : HandleSelectTab(value)
    \/ SelectSheetThen
    \/ SelectSheetRejected

SpecLoad == Init /\ [][NextLoad]_vars

\* the Evaluate page: the report, the progress stream, save and restart
NextEval ==
    \/ ListenRegistered("page/move")
    \/ \E v \in {TrainIdx, EvalIdx} : PageMove(v)
    \/ PageListenRegistered
    \/ PageListenResolved
    \/ EvaluationThen
    \/ \E payload \in Progresses : EvaluateProgress(payload)
    \/ HandleSave
    \/ \E ok \in BOOLEAN : SaveSettles(ok)
    \/ HandleRestart

SpecEval == Init /\ [][NextEval]_vars

\* the Data page: the load button
NextData ==
    \/ EngineReplyPageIndex
    \/ PageIndexThen
    \/ ListenRegistered("page/move")
    \/ \E v \in {DataIdx, PreIdx} : PageMove(v)
    \/ AppUnmount
    \/ HandleClickLoad
    \/ \E ok \in BOOLEAN : LoadSettles(ok)

SpecData == Init /\ [][NextData]_vars

Next == NextErr \/ NextNav \/ NextFetch \/ NextStreams \/ NextSubmit \/ NextTrain
          \/ NextEval \/ NextData \/ NextLoad

Spec == Init /\ [][Next]_vars

(* ------------------------------ properties ---------------------------- *)
InQueue(e) == \E i \in DOMAIN allErrorInfo : allErrorInfo[i] = e

GuardedCmds == {"get_data_info", "get_train_progress", "get_evaluation"}

\* a step that settles the call r and nothing else in `inflight`
Settles(r) == r \in inflight /\ inflight' = inflight \ {r}

NoCurrent(cmd) == ~\E r \in inflight : r.cmd = cmd /\ r.cur

C1_OnlyCurrentVisible ==
    /\ ~mounted => appCanceled
    /\ (mounted /\ pre.name # "") =>
          /\ effectLive[PreIdx]
          /\ NoCurrent("get_data_info")
          /\ preTimers = {}
    /\ (mounted /\ train.endX # 0) =>
          effectLive[TrainIdx] /\ NoCurrent("get_train_progress")
    /\ (mounted /\ eval.report # None) =>
          effectLive[EvalIdx] /\ NoCurrent("get_evaluation")

\* C1: a get_page_index, get_data_info, get_train_progress or get_evaluation
\* response that arrives after the activation that issued it has ended
\* changes no state variable, and data is visible in a page only when the
\* response of that page's current activation has been applied.
C1_StaleFetchDiscarded ==
    /\ []C1_OnlyCurrentVisible
    /\ [][ /\ \A r \in inflight :
                (r.cmd \in GuardedCmds /\ ~r.cur /\ Settles(r))
                    => UNCHANGED <<appVars, effectLive, listeners, preTimers,
                                   pre, train, eval>>
           /\ (~mounted /\ pageReq.st = "replied" /\ pageReq'.st = "settled")
                    => UNCHANGED <<navVars, errVars>> ]_vars

\* Preprocess was re-activated and shows the data of its current activation
\* while the cancelled get_data_info of an earlier activation is in flight
C1_Witness ==
    /\ pre.name # ""
    /\ \E r \in inflight : r.cmd = "get_data_info" /\ ~r.cur /\ r.canceled

\* C2: a select_sheet response that arrives after the activation that issued
\* the request has ended changes no Preprocess state (no snapshot-apply, no
\* change of the loading flag).
C2_StaleSelectSheetDiscarded ==
    [][ \A r \in inflight :
            (r.cmd = "select_sheet" /\ ~r.cur /\ Settles(r))
                => UNCHANGED pre ]_vars

NewError == CHOOSE e \in received' : e \notin received

\* C3: the queue never holds more than 10 entries; an error event appends at
\* the tail below 10 entries and changes nothing at 10, so 11 pushes onto an
\* empty queue leave the first 10 in arrival order.
C3_QueueCapacity ==
    /\ [](Len(allErrorInfo) <= 10)
    /\ []((Cardinality(received) = 11 /\ shown = {1})
             => allErrorInfo = [i \in 1..10 |-> i])
    /\ [][ received' # received =>
             IF Len(allErrorInfo) < 10
             THEN allErrorInfo' = Append(allErrorInfo, NewError)
             ELSE allErrorInfo' = allErrorInfo ]_vars

\* eleven error events without an acknowledgement: the eleventh was dropped
C3_Witness ==
    /\ Cardinality(received) = 11
    /\ shown = {1}
    /\ Len(allErrorInfo) = 10

\* C4: an acknowledgement removes the front of the queue, and it closes the
\* window iff panicking is true and the queue held at most one entry before
\* the removal.
C4_AcknowledgePopsAndCloses ==
    [][ Len(allErrorInfo') < Len(allErrorInfo) =>
          /\ allErrorInfo' = Tail(allErrorInfo)
          /\ terminated' = (isPanic /\ Len(allErrorInfo) <= 1) ]_vars

\* the window was closed by the acknowledgement of the last of several
\* notifications
C4_Witness ==
    terminated /\ Cardinality(shown) >= 2

\* C5: the window is closed by the controller only when panicking is true
\* and no notification is left in the queue.
C5_TerminationOnlyWhenDrained ==
    terminated => (isPanic /\ allErrorInfo = <<>> /\ ~dlgOpen)

C5_Witness ==
    terminated /\ isPanic /\ Cardinality(received) >= 3 /\ received = shown

\* C6 as stated: every error event handed to the controller is in the queue
\* or has been displayed.
C6_EveryErrorRouted ==
    \A e \in received : InQueue(e) \/ e \in shown

\* C6 as amended: an error event received below 10 queued entries is
\* appended, and every queued notification is eventually displayed while the
\* user acknowledges every displayed one and the window stays open.
C6_QueuedEventuallyShown ==
    /\ [][ (received' # received /\ Len(allErrorInfo) < 10)
             => \E i \in DOMAIN allErrorInfo' : allErrorInfo'[i] = NewError ]_vars
    /\ \A e \in 1..MaxErrors : InQueue(e) ~> (e \in shown \/ ~mounted)

\* a notification that waited behind two others has been displayed
C6_Witness ==
    /\ 3 \in shown
    /\ Cardinality(received) >= 4
    /\ Len(allErrorInfo) >= 1

\* C7: the dialog displays the front of the queue (nothing when it is empty),
\* the queue is in arrival order, and while it is non-empty its front changes
\* only by the removal an acknowledgement makes.
C7_FrontDisplayedInOrder ==
    /\ [](dlgOpen = (allErrorInfo # <<>>))
    /\ [](allErrorInfo # <<>> => dlgInfo = Head(allErrorInfo))
    /\ [](\A i, j \in DOMAIN allErrorInfo :
              i < j => allErrorInfo[i] < allErrorInfo[j])
    /\ [][ (allErrorInfo # <<>> /\
              (allErrorInfo' = <<>> \/ Head(allErrorInfo') # Head(allErrorInfo)))
           => (dlgOpen /\ allErrorInfo' = Tail(allErrorInfo)) ]_vars

\* the second notification is displayed with a third waiting, on another page
C7_Witness ==
    /\ Len(allErrorInfo) >= 2
    /\ dlgOpen /\ dlgInfo = 2
    /\ pageIndex = 2
    /\ isPanic

\* C8: the get_page_index response never replaces a pageIndex that a
\* page/move event has set.
C8_InitNeverOverwritesMove ==
    [][ (pageReq.st = "replied" /\ pageReq'.st = "settled"
            /\ pageIndex' # pageIndex)
        => ~moveApplied ]_vars

Enabled(index) == ~PageDisabled(pageIndex, index)

\* C9: page i is enabled iff pageIndex = i, at most one page is enabled (and
\* only an enabled page has a live activation), and a page/move payload is
\* applied as it is, an index outside 0..3 leaving every page disabled.
C9_Enablement ==
    /\ [](\A i \in 0..3 : Enabled(i) = (pageIndex = i))
    /\ [](Cardinality({i \in 0..3 : Enabled(i)}) <= 1)
    /\ [](\A i \in 1..3 : effectLive[i] = (mounted /\ pageIndex = i))
    /\ [][ (mounted /\ lis["page/move"] = "live" /\ enginePage' # enginePage)
           => /\ pageIndex' = enginePage'
              /\ (enginePage' \notin 0..3 =>
                    \A i \in 0..3 : PageDisabled(pageIndex', i)) ]_vars

\* an out-of-range page/move payload has been applied
C9_Witness ==
    /\ mounted /\ moveApplied
    /\ pageIndex = 4
    /\ \A i \in 1..3 : ~effectLive[i]

\* C10: at most one settle timer and one watchdog interval exist, and both
\* were created for the current pageIndex.
C10_TimersOfCurrentIndex ==
    /\ Cardinality(timeouts) <= 1
    /\ Cardinality(intervals) <= 1
    /\ \A t \in timeouts \cup intervals : t.idx = pageIndex
    /\ \A l \in resizeListeners : l.idx = pageIndex

\* the watchdog runs for an index that page/move events set, after the
\* timer and the watchdog of an earlier index were cancelled
C10_Witness ==
    /\ intervals # {}
    /\ moveApplied
    /\ pageIndex = 2
    /\ scrollLeft # 2

DataInfoCalls == {r \in inflight : r.cmd = "get_data_info"}

\* a step that issues a get_data_info call
IssuesDataInfo == Cardinality(DataInfoCalls') > Cardinality(DataInfoCalls)

\* C11: a deactivation clears the pending 1000 ms delay, so the only pending
\* delay is the one of the current activation, and a get_data_info request
\* is issued only when the delay of the current activation expires.
C11_DelayCancelledOnDeactivation ==
    /\ [](\A t \in preTimers : t.cur /\ ~t.canceled)
    /\ [](preTimers # {} => (mounted /\ pageIndex = PreIdx))
    /\ [](Cardinality(preTimers) <= 1)
    /\ [][ IssuesDataInfo =>
              /\ \A r \in DataInfoCalls' \ DataInfoCalls : r.cur /\ ~r.canceled
              /\ mounted /\ pageIndex = PreIdx /\ pageIndex' = PreIdx
              /\ preTimers # {} /\ preTimers' = {} ]_vars

\* Preprocess was activated by the initial index and left by a page/move
\* before any delay fired: no timer is pending and no request was issued
C11_Witness ==
    /\ mounted /\ pageReq.st = "settled" /\ pageReq.value = PreIdx
    /\ pageIndex = TrainIdx
    /\ ~delayFired
    /\ preTimers = {}
    /\ ~\E r \in inflight : r.cmd = "get_data_info"

\* the submit readiness the specification defines, for a page index and a
\* Preprocess state
SubmitReady(index, p) ==
    /\ index = PreIdx
    /\ ~p.isLoading
    /\ ~p.isSubmitting
    /\ p.selectedDatetime # ""
    /\ p.selectedPredictable # ""
    /\ p.selectedBatchPeriode # ""
    /\ \/ p.rowSelection.type = "include" /\ Len(p.rowSelection.ids) > 0
       \/ p.rowSelection.type = "exclude"
            /\ Len(p.rowSelection.ids) # Len(p.rows)

\* every combination of the inputs of allowSubmit over up to two rows
SubmitInputs ==
    {[pre EXCEPT !.isLoading = l, !.isSubmitting = b, !.selectedDatetime = d,
                 !.selectedPredictable = v, !.selectedBatchPeriode = c,
                 !.rows = SubSeq(SheetA.rows, 1, n),
                 !.rowSelection = [type |-> t, ids |-> ids]] :
        l \in BOOLEAN, b \in BOOLEAN, d \in {"", "when"}, v \in {"", "load"},
        c \in {"", "Daily"}, n \in 0..2, t \in {"include", "exclude"},
        ids \in IdSeqs(SheetA.rows)}

\* C12: allowSubmit equals the conjunction of: step enabled, not loading,
\* not submitting, the three selections made, and a non-trivial row
\* selection (include with some ids, or exclude with not all rows), in the
\* current state and for every combination of these inputs.
C12_AllowSubmitPredicate ==
    /\ AllowSubmit(PreDisabled, pre) = SubmitReady(pageIndex, pre)
    /\ \A index \in PageValues, p \in SubmitInputs :
          AllowSubmit(PageDisabled(index, PreIdx) \/ p.isLoading
                          \/ p.isSubmitting, p)
              = SubmitReady(index, p)

\* everything is chosen and the step is idle, but every row is excluded
C12_Witness ==
    /\ ~PreDisabled
    /\ pre.selectedDatetime # "" /\ pre.selectedPredictable # ""
    /\ pre.selectedBatchPeriode # ""
    /\ pre.rowSelection.type = "exclude"
    /\ Len(pre.rows) = 2 /\ Len(pre.rowSelection.ids) = 2
    /\ ~AllowSubmit(PreDisabled, pre)

Submits == {r \in inflight : r.cmd = "submit_preprocess_config"}

\* C13: start sets the submitting flag and sends submit_preprocess_config;
\* when the call settles the flag is cleared, and start_train is sent once
\* if the call succeeded and not at all if it failed.
C13_SubmitThenStartTrain ==
    /\ [](calls["start_train"] = calls["submit_ok"])
    /\ []((mounted /\ pre.isSubmitting) => Submits # {})
    /\ [][ calls'["submit_preprocess_config"] # calls["submit_preprocess_config"]
             => /\ ~pre.isSubmitting /\ pre'.isSubmitting
                /\ Submits = {} /\ Submits' # {}
                /\ calls'["start_train"] = calls["start_train"] ]_vars
    /\ [][ (Submits # {} /\ Submits' = {})
             => /\ mounted => ~pre'.isSubmitting
                /\ calls'["start_train"] - calls["start_train"]
                      = calls'["submit_ok"] - calls["submit_ok"]
                /\ calls'["start_train"] - calls["start_train"] \in {0, 1} ]_vars

\* one submit failed and one succeeded: start_train was sent once
C13_Witness ==
    /\ calls["submit_preprocess_config"] = 2
    /\ calls["submit_ok"] = 1
    /\ calls["start_train"] = 1
    /\ Submits = {}
    /\ ~pre.isSubmitting

\* every field a snapshot-apply sets holds the value of the SheetInfo s
FromSheet(p, s) ==
    /\ p.columns = s.columns
    /\ Len(p.rows) = Len(s.rows)
    /\ \A i \in DOMAIN s.rows : \A k \in DOMAIN s.rows[i] :
            p.rows[i][k].v = s.rows[i][k].v
    /\ p.allowedBatchPeriodes = s.allowedBatchPeriodes
    /\ p.selectedTab = (IF s.tabName = None THEN "" ELSE s.tabName[1])
    /\ p.selectedDatetime = s.selectedDatetimeColumn
    /\ p.selectedPredictable = s.selectedPredictableColumn
    /\ p.selectedBatchPeriode = s.selectedBatchPeriode
    /\ p.rowSelection = s.rowSelection

\* a step in which a get_data_info or select_sheet response is applied
AppliesSheet ==
    /\ mounted /\ mounted' /\ pageIndex' = pageIndex
    /\ pre' # pre
    /\ \E r \in inflight : r.cmd \in PreCmds /\ Settles(r) /\ ~r.canceled

\* C14: in the state right after a data-info or select_sheet response is
\* applied, columns, rows, allowedBatchPeriods, selectedTab (empty without a
\* tabName), the three selections and rowSelection all come from one
\* SheetInfo; the apply is a single step.
C14_SnapshotApplyAtomic ==
    [][ AppliesSheet => \E s \in Sheets : FromSheet(pre', s) ]_vars

\* sheet B was applied over sheet A by a select_sheet response
C14_Witness ==
    /\ pre.name = "book.xlsx"
    /\ ~pre.isLoading
    /\ FromSheet(pre, SheetB)

\* C15: while a step is inactive Preprocess holds no file name, tabs,
\* columns, rows or selections, Train's sequence is [(0,0)] and Evaluate
\* holds no report.
C15_InactiveStateDiscarded ==
    /\ (mounted /\ pageIndex # PreIdx) =>
          /\ pre.name = "" /\ pre.tabs = <<>>
          /\ pre.columns = <<>> /\ pre.rows = <<>>
          /\ pre.selectedDatetime = "" /\ pre.selectedPredictable = ""
          /\ pre.selectedBatchPeriode = ""
          /\ pre.rowSelection.ids = <<>>
    /\ (mounted /\ pageIndex # TrainIdx) => train.confidencePoints = <<Origin>>
    /\ (mounted /\ pageIndex # EvalIdx) => eval.report = None

\* the sequences of up to two points
PointSeqs == UNION {[1..n -> Points] : n \in 0..2}

OneListener == Cardinality(Live("train/progress/new")) = 1

\* C16: appending p to a one-element sequence whose x is 0, with p.x = 0,
\* gives [p]; in every other case it gives the sequence with p at the end.
C16_AppendPoint ==
    /\ [](\A state \in PointSeqs, p \in Points :
            modifyConfidenceGraph(state, "add", p) =
                IF Len(state) = 1 /\ state[1].x = 0 /\ p.x = 0
                THEN <<p>>
                ELSE state \o <<p>>)
    /\ [](modifyConfidenceGraph(<<Origin, [x |-> 1, y |-> 10]>>, "add",
                                [x |-> 0, y |-> 5])
            = <<Origin, [x |-> 1, y |-> 10], [x |-> 0, y |-> 5]>>)
    /\ [][ \A p \in Points :
              (OneListener /\ TrainProgressNew(p)) =>
                  train'.confidencePoints =
                      IF Len(train.confidencePoints) = 1
                           /\ train.confidencePoints[1].x = 0 /\ p.x = 0
                      THEN <<p>>
                      ELSE train.confidencePoints \o <<p>> ]_vars

\* the stream's point (0,5) replaced the origin
C16_Witness ==
    /\ pageIndex = TrainIdx
    /\ train.confidencePoints = <<[x |-> 0, y |-> 5]>>

\* a step in which a get_train_progress response is applied
AppliesSnapshot ==
    /\ mounted /\ mounted' /\ pageIndex' = pageIndex
    /\ \E r \in inflight :
          r.cmd = "get_train_progress" /\ Settles(r) /\ ~r.canceled

\* C17: a non-empty snapshot replaces the sequence, whatever it held, and an
\* empty snapshot resets it to [(0,0)].
C17_SetSnapshot ==
    /\ [](\A state \in PointSeqs, value \in PointSeqs :
            modifyConfidenceGraph(state, "set", value) =
                IF value # <<>> THEN value ELSE <<Origin>>)
    /\ [][ AppliesSnapshot =>
              \E value \in TrainProgresses :
                  /\ train'.endX = value.endX
                  /\ train'.confidencePoints =
                        IF value.confidencePoints # <<>>
                        THEN value.confidencePoints
                        ELSE <<Origin>> ]_vars

\* the snapshot [(2,30)] is the whole sequence while the stream is live
C17_Witness ==
    /\ pageIndex = TrainIdx
    /\ train.endX = 10
    /\ train.confidencePoints = <<[x |-> 2, y |-> 30]>>
    /\ Live("train/progress/new") # {}
    /\ NoCurrent("get_train_progress")

CurrentEvaluations == {r \in inflight : r.cmd = "get_evaluation" /\ r.cur}

\* C18: an activation of Evaluate starts with no report and progress 0 and
\* issues one get_evaluation request; no other request is issued during the
\* activation, and a report is held only after the response to the current
\* activation's request has been applied.
C18_EvaluateActivation ==
    /\ [][ (mounted /\ pageIndex # EvalIdx /\ pageIndex' = EvalIdx)
             => /\ eval'.report = None
                /\ eval'.predictProgress = 0
                /\ CurrentEvaluations = {}
                /\ Cardinality(CurrentEvaluations') = 1
                /\ \A r \in CurrentEvaluations' : ~r.canceled ]_vars
    /\ [][ (CurrentEvaluations = {} /\ CurrentEvaluations' # {})
             => (pageIndex # EvalIdx /\ pageIndex' = EvalIdx) ]_vars
    /\ [](Cardinality(CurrentEvaluations) <= 1)
    /\ []((mounted /\ eval.report # None)
             => (pageIndex = EvalIdx /\ CurrentEvaluations = {}))
    /\ [][ (eval.report = None /\ eval'.report # None)
             => (pageIndex = EvalIdx /\ CurrentEvaluations # {}
                   /\ CurrentEvaluations' = {}) ]_vars

\* Evaluate is active again and Predicting; the save started while it was
\* Ready in an earlier activation is still pending
C18_Witness ==
    /\ pageIndex = EvalIdx
    /\ eval.report = None /\ eval.predictProgress = 0
    /\ eval.isSaving
    /\ Cardinality(CurrentEvaluations) = 1

\* C19: no evaluate/progress event changes the progress value while the
\* step is Ready.
C19_NoProgressWhileReady ==
    [][ (mounted /\ pageIndex = EvalIdx /\ pageIndex' = EvalIdx
            /\ eval.report # None)
        => eval'.predictProgress = eval.predictProgress ]_vars

Saves == {r \in inflight : r.cmd = "save_prediction"}

\* C20: save_prediction and restart are sent only while Evaluate is active,
\* holds a report and has no save pending; save sets the busy flag, and the
\* flag is cleared when the call settles, whatever its outcome.
C20_SaveRestartGuarded ==
    /\ [][ calls'["save_prediction"] # calls["save_prediction"]
             => /\ pageIndex = EvalIdx /\ eval.report # None
                /\ ~eval.isSaving /\ Saves = {}
                /\ eval'.isSaving /\ Saves' # {} ]_vars
    /\ [][ calls'["restart"] # calls["restart"]
             => /\ pageIndex = EvalIdx /\ eval.report # None
                /\ ~eval.isSaving /\ Saves = {} ]_vars
    /\ [][ (Saves # {} /\ Saves' = {}) => (mounted => ~eval'.isSaving) ]_vars
    /\ []((mounted /\ eval.isSaving) => Saves # {})

\* a second save is pending after the first one settled and a restart was
\* sent in between
C20_Witness ==
    /\ pageIndex = EvalIdx /\ eval.report # None
    /\ eval.isSaving
    /\ calls["save_prediction"] = 2
    /\ calls["restart"] >= 1

Loads == {r \in inflight : r.cmd = "load_data"}

\* C21: the busy flag of Data is true exactly while a load_data call is
\* outstanding, it is set when the call is made and cleared when it settles,
\* and a call is made only while the step is active and not busy.
C21_LoadBusyFlag ==
    /\ [](mounted => (data.loading = (Loads # {})))
    /\ [](~DataDisabled = (pageIndex = DataIdx /\ ~data.loading))
    /\ [][ calls'["load_data"] # calls["load_data"]
             => /\ pageIndex = DataIdx
                /\ ~data.loading /\ Loads = {}
                /\ data'.loading /\ Loads' # {} ]_vars
    /\ [][ (Loads # {} /\ Loads' = {}) => (mounted => ~data'.loading) ]_vars

\* a second load is pending after the first one settled
C21_Witness ==
    /\ pageIndex = DataIdx
    /\ data.loading
    /\ calls["load_data"] = 2

\* C22: while Train is inactive no event changes its state, and while
\* Evaluate is inactive no event changes its state.
C22_NoEventWhileInactive ==
    [][ /\ (mounted /\ pageIndex # TrainIdx /\ pageIndex' = pageIndex)
              => train' = train
        /\ (mounted /\ pageIndex # EvalIdx /\ pageIndex' = pageIndex)
              => eval' = eval ]_vars

PageStreams == {"train/progress/new", "evaluate/progress"}

\* C26: at most one subscription per event stream is live for a component,
\* so a delivered event is applied once.
C26_OneSubscriptionPerStream ==
    \A stream \in PageStreams : Cardinality(Live(stream)) <= 1

\* C23: a change of pageIndex scrolls to the page and disables scroll-snap
\* (class "scrolling") with one 500 ms timer pending for the new index, the
\* timer of the previous index being cancelled; scroll-snap stays disabled
\* while that timer is pending and is re-enabled by the step in which it
\* fires.
C23_AnimatingUntilSettled ==
    /\ [][ (mounted /\ pageIndex' # pageIndex)
             => /\ scrollableClass' = "scrolling"
                /\ pageIndex' \in 0..3 => scrollLeft' = pageIndex'
                /\ timeouts' = {[h |-> timeoutHandler', idx |-> pageIndex']}
                /\ intervals' = {} ]_vars
    /\ [](mounted => ((scrollableClass = "scrolling") = (timeouts # {})))
    /\ [][ (scrollableClass = "scrolling" /\ scrollableClass' # "scrolling")
             => /\ pageIndex' = pageIndex
                /\ timeouts = {[h |-> timeoutHandler, idx |-> pageIndex]}
                /\ timeouts' = {} ]_vars

\* a page/move changed the index: scroll-snap is disabled and the delay runs
\* for the new index
C23_Witness ==
    /\ mounted /\ moveApplied
    /\ pageIndex = 2
    /\ scrollableClass = "scrolling"
    /\ scrollLeft = 2
    /\ timeouts = {[h |-> timeoutHandler, idx |-> 2]}
    /\ intervals = {}

\* C24 as stated: the step that re-enables scroll-snap leaves the watchdog
\* interval not running.
C24_SettlingBeforeWatchdog ==
    [][ (scrollableClass = "scrolling" /\ scrollableClass' # "scrolling")
        => intervals' = {} ]_vars

\* C24 as amended: the watchdog interval is started by the step that
\* re-enables scroll-snap, for the index that has not changed since, so it
\* runs exactly while scroll-snap is enabled; each of its ticks sets the
\* scroll offset to the page of the index.
C24_WatchdogStartsOnSettle ==
    /\ [](mounted => ((scrollableClass # "scrolling") = (intervals # {})))
    /\ [][ (intervals = {} /\ intervals' # {})
             => /\ scrollableClass = "scrolling"
                /\ scrollableClass' # "scrolling"
                /\ pageIndex' = pageIndex
                /\ intervals' = {[h |-> watchdogHandler', idx |-> pageIndex]} ]_vars
    /\ [][ WatchdogTick
             => /\ intervals # {}
                /\ scrollLeft' = IF pageIndex > 3 THEN 3 ELSE pageIndex ]_vars

\* the watchdog runs on the last page with the offset where it belongs
C24_Witness ==
    /\ mounted /\ moveApplied
    /\ pageIndex = 3
    /\ scrollableClass # "scrolling"
    /\ intervals = {[h |-> watchdogHandler, idx |-> 3]}
    /\ scrollLeft = 3

\* C25: once a panic event has been applied, with the user acknowledging
\* every displayed notification, the controller eventually triggers
\* termination (or the window is gone), whatever the queue held at the panic.
C25_PanicEventuallyTerminates ==
    isPanic ~> (terminated \/ ~mounted)

\* the delay or the get_data_info request of the current activation of
\* Preprocess is still outstanding
AwaitingDataInfo ==
    /\ mounted /\ pageIndex = PreIdx
    /\ \/ \E t \in preTimers : t.cur
       \/ \E r \in inflight : r.cmd = "get_data_info" /\ r.cur

\* C27: from the activation of Preprocess until the get_data_info response
\* of that activation is applied, the step is loading and holds no file
\* name, columns or rows, whatever responses of earlier activations arrive.
C27_LoadingUntilDataInfo ==
    AwaitingDataInfo =>
        /\ pre.isLoading
        /\ pre.name = ""
        /\ pre.columns = <<>>
        /\ pre.rows = <<>>

\* C28: while Preprocess is active it is never loading with no
\* get_data_info or select_sheet request outstanding and no delay pending,
\* whether the requests succeed or fail.
C28_LoadingHasPendingWork ==
    (mounted /\ pageIndex = PreIdx /\ pre.isLoading) =>
        \/ preTimers # {}
        \/ \E r \in inflight : r.cmd \in PreCmds

\* C29: submit_preprocess_config is issued only where allowSubmit holds
\* (step active, not loading, not submitting, all selections made), with no
\* other submit outstanding and with no get_data_info or select_sheet
\* request of the current activation outstanding.
C29_SubmitOnlyWhenSettled ==
    [][ calls'["submit_preprocess_config"] # calls["submit_preprocess_config"]
          => /\ SubmitReady(pageIndex, pre)
             /\ Submits = {}
             /\ ~\E r \in inflight : r.cmd \in PreCmds /\ r.cur ]_vars

\* C30: Train's confidence-point sequence is never empty: it starts as
\* [(0,0)], and 'set', 'add' and 'clear' applied to a non-empty sequence
\* give a non-empty sequence.
C30_SequenceNeverEmpty ==
    /\ [](Len(train.confidencePoints) >= 1)
    /\ [](\A state \in PointSeqs \ {<<>>}, value \in PointSeqs, p \in Points :
            /\ Len(modifyConfidenceGraph(state, "set", value)) >= 1
            /\ Len(modifyConfidenceGraph(state, "add", p)) >= 1
            /\ Len(modifyConfidenceGraph(state, "clear", <<>>)) >= 1)

\* an empty snapshot was applied: the sequence is the origin point alone
C30_Witness ==
    /\ mounted /\ pageIndex = TrainIdx
    /\ train.endX = 10
    /\ train.confidencePoints = <<Origin>>

====
